---- MODULE Spec2Model ----
(***************************************************************************)
(* Request lifecycle, BatchPerfData cost accounting and SubBatch           *)
(* composition / finalization of swiftllm/structs.py.                      *)
(*                                                                         *)
(* Python objects are records; an attribute that a method deletes (del) or *)
(* that __setstate__ never creates is absent from the object's `attrs`     *)
(* set, and touching it raises AttributeError at that statement, keeping   *)
(* the effects of the statements before it.  Every method is an operator   *)
(* returning [self, ok, ret]: the object after the call, whether the call  *)
(* returned normally, and its return value.                                *)
(***************************************************************************)
EXTENDS Integers, Sequences, FiniteSets, TLC

\* ---------------------------------------------------------------- bounds
\* number of Request objects in the pool the composer draws from
NReq == 3
\* largest raw_request.max_output_len a Request is constructed with
MaxMaxOut == 1
\* update_output is not applied once a request's output_len reached this
MaxOutLen == 2
\* number of Request objects of the lifecycle specification
NObj == 2
\* largest argument passed to a BatchPerfData method called directly
MaxArg == 2
\* deepest nesting of unmatched BatchPerfData add_* calls
MaxDepth == 3
\* largest total request count reached by direct BatchPerfData calls
MaxX == 4
\* number of decoding requests of the block-sizing specification
NLong == 2

\* ------------------------------------------------------ program constants
UNSET_ID == -1
NO_LIMIT == 1000000000
SEED_BLOCK_SIZE == 2048
MIN_BLOCK_SIZE == 64
PARALLELISM_TARGET == 1024
MAX_BLOCKS_PER_SEQ == 128

Pool == 1..NReq
Objs == 1..NObj
KvHeads == {1, 8}
\* block sizing: context lengths around the thresholds 128*64, 128*1024 and
\* 128*2048 of the loop, and head counts that reach 1024-way parallelism
DecodeLens == {1, 8191, 8192, 131072, 262143, 262144}
BlockKvHeads == {1, 8, 64}
Predictors == {"zero", "calibrated"}

VARIABLES
    reqs,       \* the Request objects, by object identity
    sb,         \* the SubBatch object
    last,       \* the most recent SubBatch call: arguments, outcome, state before
    prev,       \* the add_* call that the pop_* call in `last` directly
                \* followed, if it followed one
    ulast,      \* the most recent update_output call
    pd,         \* a BatchPerfData object driven directly
    stack,      \* its unmatched add_* calls, innermost last
    received    \* per Request, the token ids its consumer has dequeued

vars == <<reqs, sb, last, prev, ulast, pd, stack, received>>

\* ------------------------------------------------------------- utilities
RECURSIVE SumSeq(_)
SumSeq(q) == IF q = <<>> THEN 0 ELSE Head(q) + SumSeq(Tail(q))

RECURSIVE MaxSeq(_)
\* max(q, default=0)
MaxSeq(q) ==
    IF q = <<>> THEN 0
    ELSE IF Len(q) = 1 THEN Head(q)
    ELSE LET m == MaxSeq(Tail(q)) IN IF Head(q) >= m THEN Head(q) ELSE m

Front(q) == SubSeq(q, 1, Len(q) - 1)
Last(q) == q[Len(q)]
\* q[-1:]
LastSlice(q) == IF q = <<>> THEN <<>> ELSE <<Last(q)>>
Range(q) == {q[i] : i \in 1..Len(q)}
IsInjective(q) == \A i, j \in 1..Len(q) : q[i] = q[j] => i = j
SeqsUpTo(S, n) == UNION {[1..k -> S] : k \in 0..n}

\* ------------------------------------------------------------ PerfPredictor
\* The predictor is an external capability; a zero predictor and one
\* calibrated predictor with non-additive decode cost stand for it.
get_lnch_T(predictor) == IF predictor = "zero" THEN 0 ELSE 1
get_pref_T(predictor, prompt_len) ==
    IF predictor = "zero" THEN 0 ELSE prompt_len * prompt_len + 1
get_gdec_T(predictor, n_g) ==
    IF predictor = "zero" THEN 0 ELSE (n_g * n_g) \div 2 + 2
get_linr_T(predictor, s) == IF predictor = "zero" THEN 0 ELSE 2 * s + 3
get_cdec_T(predictor, x_c, n_c) ==
    IF predictor = "zero" THEN 0 ELSE 3 * x_c + n_c

\* ------------------------------------------------------------------ Request
InitAttrs == {"prompt_token_ids", "prompt_len", "max_output_len", "output_len",
              "output_q", "finished_event", "request_id", "output_token_ids"}
StateAttrs == {"prompt_token_ids", "output_token_ids", "prompt_len",
               "output_len", "request_id"}

\* Request.__init__(RawRequest(_, max_output_len))
Request_init(max_output_len) ==
    [attrs |-> InitAttrs,
     prompt_token_ids |-> <<>>,
     prompt_len |-> 0,
     max_output_len |-> max_output_len,
     output_len |-> 0,
     output_q |-> <<>>,
     finished_event |-> FALSE,
     request_id |-> UNSET_ID,
     output_token_ids |-> <<>>]

\* a Request object on which no attribute has been set (object.__new__)
BlankRequest ==
    [attrs |-> {},
     prompt_token_ids |-> <<>>,
     prompt_len |-> 0,
     max_output_len |-> 0,
     output_len |-> 0,
     output_q |-> <<>>,
     finished_event |-> FALSE,
     request_id |-> UNSET_ID,
     output_token_ids |-> <<>>]

seq_len(req) == req.prompt_len + req.output_len

\* is_finished that also accepts an output longer than max_output_len
is_finished_at_least(req) == req.output_len >= req.max_output_len

is_finished(req) == req.output_len = req.max_output_len

create_request(prompt_token_ids, req_id, output_token_ids, quick_stop) ==
    [Request_init(0) EXCEPT
        !.prompt_token_ids = prompt_token_ids,
        !.output_token_ids = output_token_ids,
        !.prompt_len = Len(prompt_token_ids),
        !.output_len = Len(output_token_ids),
        !.max_output_len = IF quick_stop THEN Len(output_token_ids) + 1
                           ELSE NO_LIMIT,
        !.request_id = req_id]

\* Request.get_ids / Request.get_lens over a list of object identities
get_ids(rs) == [i \in 1..Len(rs) |-> reqs[rs[i]].request_id]
get_lens(rs) == [i \in 1..Len(rs) |-> seq_len(reqs[rs[i]])]

Has(req, a) == a \in req.attrs

RECURSIVE update_output_loop_newest_first(_, _, _, _)
\* the loop with a channel that hands out the newest item first
update_output_loop_newest_first(R, rs, toks, fin) ==
    IF rs = <<>> \/ toks = <<>> THEN [reqs |-> R, ok |-> TRUE, ret |-> fin]
    ELSE
    LET r == Head(rs)
        tok == Head(toks)
        R1 == [R EXCEPT ![r].output_len = @ + 1]
        R2 == [R1 EXCEPT ![r].output_token_ids = Append(@, tok)]
        R3 == [R2 EXCEPT ![r].output_q = <<(<<tok, r>>)>> \o @]
        R4 == [R3 EXCEPT ![r].finished_event = TRUE]
    IN  IF ~Has(R[r], "output_len") THEN [reqs |-> R, ok |-> FALSE, ret |-> fin]
        ELSE IF ~Has(R[r], "output_token_ids")
            THEN [reqs |-> R1, ok |-> FALSE, ret |-> fin]
        ELSE IF ~Has(R[r], "output_q")
            THEN [reqs |-> R2, ok |-> FALSE, ret |-> fin]
        ELSE IF ~Has(R[r], "max_output_len")
            THEN [reqs |-> R3, ok |-> FALSE, ret |-> fin]
        ELSE IF ~is_finished(R3[r])
            THEN update_output_loop_newest_first(R3, Tail(rs), Tail(toks), fin)
        ELSE IF ~Has(R[r], "finished_event")
            THEN [reqs |-> R3, ok |-> FALSE, ret |-> fin]
        ELSE update_output_loop_newest_first(R4, Tail(rs), Tail(toks),
                                             Append(fin, r))

RECURSIVE update_output_loop(_, _, _, _)
\* the loop of update_output over zip(reqs, output_toks): R maps identities
\* to objects, rs and toks are what is left of the two lists, fin is
\* finished_reqs so far.  An absent attribute raises at its statement.
update_output_loop(R, rs, toks, fin) ==
    IF rs = <<>> \/ toks = <<>> THEN [reqs |-> R, ok |-> TRUE, ret |-> fin]
    ELSE
    LET r == Head(rs)
        tok == Head(toks)
        R1 == [R EXCEPT ![r].output_len = @ + 1]
        R2 == [R1 EXCEPT ![r].output_token_ids = Append(@, tok)]
        R3 == [R2 EXCEPT ![r].output_q = Append(@, <<tok, r>>)]
        R4 == [R3 EXCEPT ![r].finished_event = TRUE]
    IN  IF ~Has(R[r], "output_len") THEN [reqs |-> R, ok |-> FALSE, ret |-> fin]
        ELSE IF ~Has(R[r], "output_token_ids")
            THEN [reqs |-> R1, ok |-> FALSE, ret |-> fin]
        ELSE IF ~Has(R[r], "output_q")
            THEN [reqs |-> R2, ok |-> FALSE, ret |-> fin]
        ELSE IF ~Has(R[r], "max_output_len")
            THEN [reqs |-> R3, ok |-> FALSE, ret |-> fin]
        ELSE IF ~is_finished(R3[r])
            THEN update_output_loop(R3, Tail(rs), Tail(toks), fin)
        ELSE IF ~Has(R[r], "finished_event")
            THEN [reqs |-> R3, ok |-> FALSE, ret |-> fin]
        ELSE update_output_loop(R4, Tail(rs), Tail(toks), Append(fin, r))

\* update_output without the length assertion: zip stops at the shorter list
update_output_unchecked(R, rs, output_toks) ==
    update_output_loop(R, rs, output_toks, <<>>)

\* Request.update_output(reqs, output_toks)
update_output(R, rs, output_toks) ==
    IF Len(rs) # Len(output_toks)
        THEN [reqs |-> R, ok |-> FALSE, ret |-> <<>>]
        ELSE update_output_loop(R, rs, output_toks, <<>>)

\* Request.__getstate__
getstate(self) ==
    [prompt_token_ids |-> IF self.output_len = 0 THEN self.prompt_token_ids
                          ELSE <<>>,
     output_token_ids |-> IF self.output_len > 0
                          THEN LastSlice(self.output_token_ids) ELSE <<>>,
     prompt_len |-> self.prompt_len,
     output_len |-> self.output_len,
     request_id |-> self.request_id]

\* Request.__setstate__
setstate(self, state) ==
    [self EXCEPT
        !.attrs = @ \cup StateAttrs,
        !.prompt_token_ids = state.prompt_token_ids,
        !.output_token_ids = state.output_token_ids,
        !.prompt_len = state.prompt_len,
        !.output_len = state.output_len,
        !.request_id = state.request_id]

\* pickling round trip: a new object, created without __init__, that
\* receives the serialization view
reconstruct(self) == setstate(BlankRequest, getstate(self))

\* the tokenizer's result for object r: r token ids
PromptOf(r) == [k \in 1..r |-> 10 * r + k]

\* ------------------------------------------------------------ BatchPerfData
BatchPerfData_init(predictor) ==
    [predictor |-> predictor,
     x |-> 0, s |-> 0, n_g |-> 0, x_c |-> 0, n_c |-> 0,
     pref_T |-> 0, gdec_T |-> 0,
     lnch_T |-> get_lnch_T(predictor)]

BatchPerfData_add_pref(self, prompt_len) ==
    [self EXCEPT !.x = @ + 1,
                 !.s = @ + prompt_len,
                 !.pref_T = @ + get_pref_T(self.predictor, prompt_len)]

\* pop_pref that leaves the prefill cost in place
BatchPerfData_pop_pref_keeps_cost(self, prompt_len) ==
    [self EXCEPT !.x = @ - 1, !.s = @ - prompt_len]

BatchPerfData_pop_pref(self, prompt_len) ==
    [self EXCEPT !.x = @ - 1,
                 !.s = @ - prompt_len,
                 !.pref_T = @ - get_pref_T(self.predictor, prompt_len)]

\* add_gdec that adds the cost of the added request to gdec_T
BatchPerfData_add_gdec_incremental(self, n) ==
    [self EXCEPT !.x = @ + 1,
                 !.s = @ + 1,
                 !.n_g = @ + n,
                 !.gdec_T = @ + get_gdec_T(self.predictor, n)]

\* add_gdec that does not count the request
BatchPerfData_add_gdec_uncounted(self, n) ==
    [self EXCEPT !.s = @ + 1,
                 !.n_g = @ + n,
                 !.gdec_T = get_gdec_T(self.predictor, self.n_g + n)]

BatchPerfData_add_gdec(self, n) ==
    [self EXCEPT !.x = @ + 1,
                 !.s = @ + 1,
                 !.n_g = @ + n,
                 !.gdec_T = get_gdec_T(self.predictor, self.n_g + n)]

\* add_cdec that does not count the request as a CPU-decode request
BatchPerfData_add_cdec_uncounted(self, n) ==
    [self EXCEPT !.x = @ + 1, !.s = @ + 1, !.n_c = @ + n]

BatchPerfData_add_cdec(self, n) ==
    [self EXCEPT !.x = @ + 1, !.s = @ + 1, !.x_c = @ + 1, !.n_c = @ + n]

\* pop_cdec that leaves the CPU-decode count in place
BatchPerfData_pop_cdec_keeps_count(self, n) ==
    [self EXCEPT !.x = @ - 1, !.s = @ - 1, !.n_c = @ - n]

BatchPerfData_pop_cdec(self, n) ==
    [self EXCEPT !.x = @ - 1, !.s = @ - 1, !.x_c = @ - 1, !.n_c = @ - n]

linr_T(self) == get_linr_T(self.predictor, self.s)
cdec_T(self) == get_cdec_T(self.predictor, self.x_c, self.n_c)
gpu_time(self) == linr_T(self) + self.pref_T + self.gdec_T
cpu_time(self) == cdec_T(self) + self.lnch_T

\* ----------------------------------------------------------------- SubBatch
ListAttrs == {"gprf_reqs", "cprf_reqs", "gdec_reqs", "cdec_reqs"}
SizeAttrs == {"batch_size", "iter_width"}
CountAttrs == {"num_cprfs", "num_gprfs", "num_gdecs", "num_cdecs",
               "num_prefs", "num_prgds"}
KernelAttrs == {"seq_ids_list", "seq_lens_list", "sum_pref_toks",
                "sum_prgd_toks", "max_pref_toks", "seq_block_size",
                "num_seq_blocks"}
FrozenAttrs == SizeAttrs \cup CountAttrs \cup {"all_reqs"} \cup KernelAttrs

\* what is left of an attribute's slot once it is deleted
NoPerfData == BatchPerfData_init("zero")

SubBatch_init(predictor) ==
    [attrs |-> ListAttrs \cup {"perfdata"},
     gprf_reqs |-> <<>>, cprf_reqs |-> <<>>,
     gdec_reqs |-> <<>>, cdec_reqs |-> <<>>,
     perfdata |-> BatchPerfData_init(predictor),
     batch_size |-> 0, iter_width |-> 0,
     num_cprfs |-> 0, num_gprfs |-> 0, num_gdecs |-> 0, num_cdecs |-> 0,
     num_prefs |-> 0, num_prgds |-> 0,
     all_reqs |-> <<>>, seq_ids_list |-> <<>>, seq_lens_list |-> <<>>,
     sum_pref_toks |-> 0, sum_prgd_toks |-> 0, max_pref_toks |-> 0,
     seq_block_size |-> 0, num_seq_blocks |-> 0]

NoRet == [req |-> 0, is_gpu |-> FALSE, n |-> 0]
Raise(self) == [self |-> self, ok |-> FALSE, ret |-> NoRet]
Return(self, ret) == [self |-> self, ok |-> TRUE, ret |-> ret]

\* SubBatch.__len__
SubBatch_len(self) ==
    IF "perfdata" \notin self.attrs THEN Raise(self)
    ELSE Return(self, [NoRet EXCEPT !.n = self.perfdata.x])

SubBatch_add_pref(self, req, is_gpu) ==
    LET lst == IF is_gpu THEN "gprf_reqs" ELSE "cprf_reqs"
        s1 == IF is_gpu THEN [self EXCEPT !.gprf_reqs = Append(@, req)]
              ELSE [self EXCEPT !.cprf_reqs = Append(@, req)]
    IN  IF lst \notin self.attrs THEN Raise(self)
        ELSE IF "perfdata" \notin self.attrs THEN Raise(s1)
        ELSE Return([s1 EXCEPT !.perfdata =
                        BatchPerfData_add_pref(@, reqs[req].prompt_len)], NoRet)

\* pop_pref that takes from the GPU-prefill list while it has entries
SubBatch_pop_pref_gpu_first(self) ==
    LET is_gpu == self.gprf_reqs # <<>>
        lst == IF is_gpu THEN self.gprf_reqs ELSE self.cprf_reqs
        req == Last(lst)
        s1 == IF is_gpu THEN [self EXCEPT !.gprf_reqs = Front(@)]
              ELSE [self EXCEPT !.cprf_reqs = Front(@)]
    IN  IF ~({"gprf_reqs", "cprf_reqs"} \subseteq self.attrs) THEN Raise(self)
        ELSE IF lst = <<>> THEN Raise(self)
        ELSE IF "perfdata" \notin self.attrs THEN Raise(s1)
        ELSE Return([s1 EXCEPT !.perfdata =
                        BatchPerfData_pop_pref(@, reqs[req].prompt_len)],
                    [NoRet EXCEPT !.req = req, !.is_gpu = is_gpu])

\* pop_pref that reverses the cost of the request's whole sequence length
SubBatch_pop_pref_by_seq_len(self) ==
    LET is_gpu == self.cprf_reqs = <<>>
        lst == IF is_gpu THEN self.gprf_reqs ELSE self.cprf_reqs
        req == Last(lst)
        s1 == IF is_gpu THEN [self EXCEPT !.gprf_reqs = Front(@)]
              ELSE [self EXCEPT !.cprf_reqs = Front(@)]
    IN  IF "cprf_reqs" \notin self.attrs THEN Raise(self)
        ELSE IF is_gpu /\ "gprf_reqs" \notin self.attrs THEN Raise(self)
        ELSE IF lst = <<>> THEN Raise(self)
        ELSE IF "perfdata" \notin self.attrs THEN Raise(s1)
        ELSE Return([s1 EXCEPT !.perfdata =
                        BatchPerfData_pop_pref(@, seq_len(reqs[req]))],
                    [NoRet EXCEPT !.req = req, !.is_gpu = is_gpu])

SubBatch_pop_pref(self) ==
    LET is_gpu == self.cprf_reqs = <<>>
        lst == IF is_gpu THEN self.gprf_reqs ELSE self.cprf_reqs
        req == Last(lst)
        s1 == IF is_gpu THEN [self EXCEPT !.gprf_reqs = Front(@)]
              ELSE [self EXCEPT !.cprf_reqs = Front(@)]
    IN  IF "cprf_reqs" \notin self.attrs THEN Raise(self)
        ELSE IF is_gpu /\ "gprf_reqs" \notin self.attrs THEN Raise(self)
        ELSE IF lst = <<>> THEN Raise(self)
        ELSE IF "perfdata" \notin self.attrs THEN Raise(s1)
        ELSE Return([s1 EXCEPT !.perfdata =
                        BatchPerfData_pop_pref(@, reqs[req].prompt_len)],
                    [NoRet EXCEPT !.req = req, !.is_gpu = is_gpu])

\* add_gdec that accounts the request's prompt length only
SubBatch_add_gdec_by_prompt_len(self, req) ==
    LET s1 == [self EXCEPT !.gdec_reqs = Append(@, req)]
    IN  IF "gdec_reqs" \notin self.attrs THEN Raise(self)
        ELSE IF "perfdata" \notin self.attrs THEN Raise(s1)
        ELSE Return([s1 EXCEPT !.perfdata =
                        BatchPerfData_add_gdec(@, reqs[req].prompt_len)], NoRet)

SubBatch_add_gdec(self, req) ==
    LET s1 == [self EXCEPT !.gdec_reqs = Append(@, req)]
    IN  IF "gdec_reqs" \notin self.attrs THEN Raise(self)
        ELSE IF "perfdata" \notin self.attrs THEN Raise(s1)
        ELSE Return([s1 EXCEPT !.perfdata =
                        BatchPerfData_add_gdec(@, seq_len(reqs[req]))], NoRet)

SubBatch_add_cdec(self, req) ==
    LET s1 == [self EXCEPT !.cdec_reqs = Append(@, req)]
    IN  IF "cdec_reqs" \notin self.attrs THEN Raise(self)
        ELSE IF "perfdata" \notin self.attrs THEN Raise(s1)
        ELSE Return([s1 EXCEPT !.perfdata =
                        BatchPerfData_add_cdec(@, seq_len(reqs[req]))], NoRet)

\* pop_cdec that removes the oldest CPU-decode request
SubBatch_pop_cdec_oldest(self) ==
    LET req == Head(self.cdec_reqs)
        s1 == [self EXCEPT !.cdec_reqs = Tail(@)]
    IN  IF "cdec_reqs" \notin self.attrs THEN Raise(self)
        ELSE IF self.cdec_reqs = <<>> THEN Raise(self)
        ELSE IF "perfdata" \notin self.attrs THEN Raise(s1)
        ELSE Return([s1 EXCEPT !.perfdata =
                        BatchPerfData_pop_cdec(@, seq_len(reqs[req]))], NoRet)

SubBatch_pop_cdec(self) ==
    LET req == Last(self.cdec_reqs)
        s1 == [self EXCEPT !.cdec_reqs = Front(@)]
    IN  IF "cdec_reqs" \notin self.attrs THEN Raise(self)
        ELSE IF self.cdec_reqs = <<>> THEN Raise(self)
        ELSE IF "perfdata" \notin self.attrs THEN Raise(s1)
        ELSE Return([s1 EXCEPT !.perfdata =
                        BatchPerfData_pop_cdec(@, seq_len(reqs[req]))], NoRet)

SubBatch_get_num_prefs(self) ==
    IF {"gprf_reqs", "cprf_reqs"} \subseteq self.attrs
        THEN Return(self, [NoRet EXCEPT
                            !.n = Len(self.gprf_reqs) + Len(self.cprf_reqs)])
        ELSE Raise(self)

RECURSIVE adapt_block_size_low_floor(_, _, _, _)
\* the loop with a floor of half the minimum block size
adapt_block_size_low_floor(seq_block_size, num_kv_heads, sum_gdec_toks, max_gdec_toks) ==
    IF /\ num_kv_heads * sum_gdec_toks < PARALLELISM_TARGET * seq_block_size
       /\ seq_block_size \div 2 >= MIN_BLOCK_SIZE \div 2
       /\ max_gdec_toks <= MAX_BLOCKS_PER_SEQ * (seq_block_size \div 2)
    THEN adapt_block_size_low_floor(seq_block_size \div 2, num_kv_heads,
                                    sum_gdec_toks, max_gdec_toks)
    ELSE seq_block_size

RECURSIVE adapt_block_size_whole_block(_, _, _, _)
\* the loop with the per-sequence block cap tested on the current block size
adapt_block_size_whole_block(seq_block_size, num_kv_heads, sum_gdec_toks, max_gdec_toks) ==
    IF /\ num_kv_heads * sum_gdec_toks < PARALLELISM_TARGET * seq_block_size
       /\ seq_block_size \div 2 >= MIN_BLOCK_SIZE
       /\ max_gdec_toks <= MAX_BLOCKS_PER_SEQ * seq_block_size
    THEN adapt_block_size_whole_block(seq_block_size \div 2, num_kv_heads,
                                      sum_gdec_toks, max_gdec_toks)
    ELSE seq_block_size

RECURSIVE adapt_block_size_uncapped(_, _, _, _)
\* the loop without the test on the longest sequence
adapt_block_size_uncapped(seq_block_size, num_kv_heads, sum_gdec_toks, max_gdec_toks) ==
    IF /\ num_kv_heads * sum_gdec_toks < PARALLELISM_TARGET * seq_block_size
       /\ seq_block_size \div 2 >= MIN_BLOCK_SIZE
    THEN adapt_block_size_uncapped(seq_block_size \div 2, num_kv_heads,
                                   sum_gdec_toks, max_gdec_toks)
    ELSE seq_block_size

RECURSIVE adapt_block_size(_, _, _, _)
\* the while loop of set_model_forward_args.  sum_gdec_toks/seq_block_size
\* is a true division by a power of two, so the first test is the exact
\* comparison num_kv_heads*sum_gdec_toks < 1024*seq_block_size; the last one
\* is max_gdec_toks <= 128*(seq_block_size//2).
adapt_block_size(seq_block_size, num_kv_heads, sum_gdec_toks, max_gdec_toks) ==
    IF /\ num_kv_heads * sum_gdec_toks < PARALLELISM_TARGET * seq_block_size
       /\ seq_block_size \div 2 >= MIN_BLOCK_SIZE
       /\ max_gdec_toks <= MAX_BLOCKS_PER_SEQ * (seq_block_size \div 2)
    THEN adapt_block_size(seq_block_size \div 2, num_kv_heads,
                          sum_gdec_toks, max_gdec_toks)
    ELSE seq_block_size

\* capture_sizes that keeps the BatchPerfData
capture_sizes_keeps_perfdata(self) ==
    [self EXCEPT !.batch_size = self.perfdata.x,
                 !.iter_width = self.perfdata.s,
                 !.attrs = @ \cup SizeAttrs]

\* batch_size, iter_width are captured and the BatchPerfData is deleted
capture_sizes(self) ==
    [self EXCEPT !.batch_size = self.perfdata.x,
                 !.iter_width = self.perfdata.s,
                 !.perfdata = NoPerfData,
                 !.attrs = (@ \cup SizeAttrs) \ {"perfdata"}]

\* the flattening with the two prefill segments exchanged
concat_all_reqs_gpu_first(self) ==
    self.gprf_reqs \o self.cprf_reqs \o self.gdec_reqs \o self.cdec_reqs

\* self.cprf_reqs + self.gprf_reqs + self.gdec_reqs + self.cdec_reqs
concat_all_reqs(self) ==
    self.cprf_reqs \o self.gprf_reqs \o self.gdec_reqs \o self.cdec_reqs

\* the category counts and the flattened request list
capture_counts(self) ==
    LET num_cprfs == Len(self.cprf_reqs)
        num_gprfs == Len(self.gprf_reqs)
        num_gdecs == Len(self.gdec_reqs)
        num_cdecs == Len(self.cdec_reqs)
        num_prefs == num_cprfs + num_gprfs
    IN  [self EXCEPT !.num_cprfs = num_cprfs, !.num_gprfs = num_gprfs,
                     !.num_gdecs = num_gdecs, !.num_cdecs = num_cdecs,
                     !.num_prefs = num_prefs,
                     !.num_prgds = num_prefs + num_gdecs,
                     !.all_reqs = concat_all_reqs(self),
                     !.attrs = @ \cup CountAttrs \cup {"all_reqs"}]

\* the category lists are deleted
del_lists(self) ==
    [self EXCEPT !.gprf_reqs = <<>>, !.cprf_reqs = <<>>,
                 !.gdec_reqs = <<>>, !.cdec_reqs = <<>>,
                 !.attrs = @ \ ListAttrs]

\* set_kernel_args that adds the GPU-decode requests' tokens, not their
\* number, to sum_prgd_toks
set_kernel_args_gdec_tokens(self, model_config) ==
    LET seq_lens_list == get_lens(self.all_reqs)
        pref_lens == SubSeq(seq_lens_list, 1, self.num_prefs)
        gdec_lens == SubSeq(seq_lens_list, self.num_prefs + 1, self.num_prgds)
        sum_pref_toks == SumSeq(pref_lens)
        sum_gdec_toks == SumSeq(gdec_lens)
        max_gdec_toks == MaxSeq(gdec_lens)
        seq_block_size == adapt_block_size(SEED_BLOCK_SIZE,
                              model_config.num_kv_heads,
                              sum_gdec_toks, max_gdec_toks)
    IN  [self EXCEPT !.seq_ids_list = get_ids(self.all_reqs),
                     !.seq_lens_list = seq_lens_list,
                     !.sum_pref_toks = sum_pref_toks,
                     !.sum_prgd_toks = sum_pref_toks + sum_gdec_toks,
                     !.max_pref_toks = MaxSeq(pref_lens),
                     !.seq_block_size = seq_block_size,
                     !.num_seq_blocks =
                         (max_gdec_toks + seq_block_size - 1)
                             \div seq_block_size,
                     !.attrs = @ \cup KernelAttrs]

\* the id and length arrays, the token sums and the paged-attention sizes
set_kernel_args(self, model_config) ==
    LET seq_lens_list == get_lens(self.all_reqs)
        pref_lens == SubSeq(seq_lens_list, 1, self.num_prefs)
        gdec_lens == SubSeq(seq_lens_list, self.num_prefs + 1, self.num_prgds)
        sum_pref_toks == SumSeq(pref_lens)
        sum_gdec_toks == SumSeq(gdec_lens)
        max_gdec_toks == MaxSeq(gdec_lens)
        seq_block_size == adapt_block_size(SEED_BLOCK_SIZE,
                              model_config.num_kv_heads,
                              sum_gdec_toks, max_gdec_toks)
    IN  [self EXCEPT !.seq_ids_list = get_ids(self.all_reqs),
                     !.seq_lens_list = seq_lens_list,
                     !.sum_pref_toks = sum_pref_toks,
                     !.sum_prgd_toks = sum_pref_toks + self.num_gdecs,
                     !.max_pref_toks = MaxSeq(pref_lens),
                     !.seq_block_size = seq_block_size,
                     !.num_seq_blocks =
                         (max_gdec_toks + seq_block_size - 1)
                             \div seq_block_size,
                     !.attrs = @ \cup KernelAttrs]

\* set_model_forward_args whose assertion skips the CPU-decode requests
SubBatch_set_model_forward_args_gpu_ids_only(self, model_config) ==
    LET s1 == capture_sizes(self)
        s2 == capture_counts(s1)
        s3 == set_kernel_args(del_lists(s2), model_config)
    IN  IF "perfdata" \notin self.attrs THEN Raise(self)
        ELSE IF ~(ListAttrs \subseteq s1.attrs) THEN Raise(s1)
        ELSE IF \E i \in 1..s2.num_prgds :
                    reqs[s2.all_reqs[i]].request_id < 0
            THEN Raise(s2)
        ELSE Return(s3, NoRet)

SubBatch_set_model_forward_args(self, model_config) ==
    LET s1 == capture_sizes(self)
        s2 == capture_counts(s1)
        s3 == set_kernel_args(del_lists(s2), model_config)
    IN  IF "perfdata" \notin self.attrs THEN Raise(self)
        ELSE IF ~(ListAttrs \subseteq s1.attrs) THEN Raise(s1)
        ELSE IF \E i \in 1..Len(s2.all_reqs) :
                    reqs[s2.all_reqs[i]].request_id < 0
            THEN Raise(s2)
        ELSE Return(s3, NoRet)

\* ------------------------------------------------- composition and freezing
\* the requests held by the four category lists
ListMembers(self) ==
    Range(self.gprf_reqs) \cup Range(self.cprf_reqs)
        \cup Range(self.gdec_reqs) \cup Range(self.cdec_reqs)

\* the pool's request r: r prompt tokens; the even ones have produced a token
OutputOf(r) == IF r % 2 = 0 THEN <<Last(PromptOf(r)) + 1>> ELSE <<>>
PoolRequest(r, req_id) == create_request(PromptOf(r), req_id, OutputOf(r), FALSE)

NoCall == [op |-> "none", req |-> 0, is_gpu |-> FALSE, kv |-> 0,
           ok |-> TRUE, ret |-> NoRet, pre |-> SubBatch_init("zero")]
NoUpdate == [op |-> "none", rs |-> <<>>, toks |-> <<>>, ok |-> TRUE,
             ret |-> <<>>, pre |-> <<>>]

\* Request ids are handed out in arrival order before a request is prefilled;
\* the newest request of the pool may still be without one.

\* The assertion of set_model_forward_args failed: the object has all_reqs
\* but no kernel arguments.  The error ends the scheduling iteration and the
\* half-frozen object is not called again.
Abandoned(self) ==
    "all_reqs" \in self.attrs /\ "seq_ids_list" \notin self.attrs

\* a call on the SubBatch: the object changes as the method says, and the
\* call, its outcome and the state it started from are remembered
Call(op, req, is_gpu, kv, res) ==
    /\ ~Abandoned(sb)
    /\ sb' = res.self
    /\ last' = [op |-> op, req |-> req, is_gpu |-> is_gpu, kv |-> kv,
                ok |-> res.ok, ret |-> res.ret, pre |-> sb]
    /\ prev' = IF op \in {"pop_pref", "pop_cdec"}
                    /\ last.op \in {"add_pref", "add_cdec"}
               THEN last ELSE NoCall
    /\ UNCHANGED <<reqs, ulast, pd, stack, received>>

add_pref(req, is_gpu) ==
    /\ req \notin ListMembers(sb)
    /\ Call("add_pref", req, is_gpu, 0, SubBatch_add_pref(sb, req, is_gpu))

pop_pref == Call("pop_pref", 0, FALSE, 0, SubBatch_pop_pref(sb))

add_gdec(req) ==
    /\ req \notin ListMembers(sb)
    /\ Call("add_gdec", req, FALSE, 0, SubBatch_add_gdec(sb, req))

add_cdec(req) ==
    /\ req \notin ListMembers(sb)
    /\ Call("add_cdec", req, FALSE, 0, SubBatch_add_cdec(sb, req))

pop_cdec == Call("pop_cdec", 0, FALSE, 0, SubBatch_pop_cdec(sb))

get_num_prefs == Call("get_num_prefs", 0, FALSE, 0, SubBatch_get_num_prefs(sb))

len == Call("len", 0, FALSE, 0, SubBatch_len(sb))

set_model_forward_args(num_kv_heads) ==
    Call("set_model_forward_args", 0, FALSE, num_kv_heads,
         SubBatch_set_model_forward_args(sb, [num_kv_heads |-> num_kv_heads]))

Init ==
    /\ \E admitted \in {NReq - 1, NReq} :
          reqs = [r \in Pool |->
                    PoolRequest(r, IF r <= admitted THEN r - 1 ELSE UNSET_ID)]
    /\ \E predictor \in Predictors : sb = SubBatch_init(predictor)
    /\ last = NoCall
    /\ prev = NoCall
    /\ ulast = NoUpdate
    /\ pd = NoPerfData
    /\ stack = <<>>
    /\ received = <<>>

Next ==
    \/ \E req \in Pool, is_gpu \in BOOLEAN : add_pref(req, is_gpu)
    \/ pop_pref
    \/ \E req \in Pool : add_gdec(req)
    \/ \E req \in Pool : add_cdec(req)
    \/ pop_cdec
    \/ get_num_prefs
    \/ len
    \/ \E num_kv_heads \in KvHeads : set_model_forward_args(num_kv_heads)

Spec == Init /\ [][Next]_vars

\* ------------------------------------- BatchPerfData driven by nested calls
\* Each add_pref / add_cdec is remembered with its argument and the object as
\* it was before; the matching pop is called with the same argument while
\* that add is the innermost unmatched one.  add_gdec has no inverse: it
\* shapes the state a nested sequence starts from.
NoPerfCall == [op |-> "none", arg |-> 0, before |-> NoPerfData]

PerfCall(op, arg, before, newpd, newstack) ==
    /\ pd' = newpd
    /\ stack' = newstack
    /\ last' = [op |-> op, arg |-> arg, before |-> before]
    /\ UNCHANGED <<reqs, sb, prev, ulast, received>>

perf_add_pref(prompt_len) ==
    /\ Len(stack) < MaxDepth
    /\ pd.x < MaxX
    /\ PerfCall("add_pref", prompt_len, pd,
                BatchPerfData_add_pref(pd, prompt_len),
                Append(stack, [op |-> "add_pref", arg |-> prompt_len,
                               before |-> pd]))

perf_pop_pref ==
    /\ stack # <<>>
    /\ Last(stack).op = "add_pref"
    /\ PerfCall("pop_pref", Last(stack).arg, Last(stack).before,
                BatchPerfData_pop_pref(pd, Last(stack).arg), Front(stack))

perf_add_gdec(n) ==
    /\ stack = <<>>
    /\ pd.x < MaxX
    /\ PerfCall("add_gdec", n, pd, BatchPerfData_add_gdec(pd, n), stack)

perf_add_cdec(n) ==
    /\ Len(stack) < MaxDepth
    /\ pd.x < MaxX
    /\ PerfCall("add_cdec", n, pd,
                BatchPerfData_add_cdec(pd, n),
                Append(stack, [op |-> "add_cdec", arg |-> n, before |-> pd]))

perf_pop_cdec ==
    /\ stack # <<>>
    /\ Last(stack).op = "add_cdec"
    /\ PerfCall("pop_cdec", Last(stack).arg, Last(stack).before,
                BatchPerfData_pop_cdec(pd, Last(stack).arg), Front(stack))

InitPerf ==
    /\ \E predictor \in Predictors : pd = BatchPerfData_init(predictor)
    /\ stack = <<>>
    /\ last = NoPerfCall
    /\ reqs = <<>>
    /\ sb = SubBatch_init("zero")
    /\ prev = NoCall
    /\ ulast = NoUpdate
    /\ received = <<>>

NextPerf ==
    \/ \E prompt_len \in 0..MaxArg : perf_add_pref(prompt_len)
    \/ perf_pop_pref
    \/ \E n \in 1..MaxArg : perf_add_gdec(n)
    \/ \E n \in 1..MaxArg : perf_add_cdec(n)
    \/ perf_pop_cdec

SpecPerf == InitPerf /\ [][NextPerf]_vars

\* ---------------------------------------------------------- Request lifecycle
\* a Request after construction and tokenization
tokenized(req, prompt_token_ids) ==
    [req EXCEPT !.prompt_token_ids = prompt_token_ids,
                !.prompt_len = Len(prompt_token_ids)]

\* the token the model samples next for a request: decoding is a function of
\* the tokens the request holds, and different requests get different tokens
next_token(req) == Last(req.prompt_token_ids \o req.output_token_ids) + 1

\* the requests of one iteration, each at most once, in any order
UpdateInputs == {rs \in SeqsUpTo(Objs, NObj) : IsInjective(rs)}

\* one call of update_output with the sampled tokens of the listed requests;
\* short = -1 / 1 passes a token list that is one short / one long
update(rs, short) ==
    /\ \A i \in 1..Len(rs) : reqs[rs[i]].output_len < MaxOutLen
    /\ short = -1 => rs # <<>>
    /\ LET sampled == [i \in 1..Len(rs) |-> next_token(reqs[rs[i]])]
           toks == IF short = 0 THEN sampled
                   ELSE IF short = -1 THEN Front(sampled)
                   ELSE Append(sampled, 0)
           res == update_output(reqs, rs, toks)
       IN  /\ reqs' = res.reqs
           /\ ulast' = [op |-> "update_output", rs |-> rs, toks |-> toks,
                        ok |-> res.ok, ret |-> res.ret, pre |-> reqs]
    /\ UNCHANGED <<sb, last, prev, pd, stack, received>>

\* the Request object r is pickled and the copy takes its place
transfer(r) ==
    /\ reqs' = [reqs EXCEPT ![r] = reconstruct(reqs[r])]
    /\ ulast' = [op |-> "transfer", rs |-> <<r>>, toks |-> <<>>,
                 ok |-> TRUE, ret |-> <<>>, pre |-> reqs]
    /\ UNCHANGED <<sb, last, prev, pd, stack, received>>

InitReq ==
    /\ \E max_output_len \in [Objs -> 0..MaxMaxOut] :
          reqs = [r \in Objs |->
                    tokenized(Request_init(max_output_len[r]), PromptOf(r))]
    /\ ulast = NoUpdate
    /\ sb = SubBatch_init("zero")
    /\ last = NoCall
    /\ prev = NoCall
    /\ pd = NoPerfData
    /\ stack = <<>>
    /\ received = <<>>

NextReq == \E rs \in UpdateInputs, short \in {-1, 0, 1} : update(rs, short)

SpecReq == InitReq /\ [][NextReq]_vars

NextTransfer ==
    \/ \E rs \in UpdateInputs, short \in {-1, 0, 1} : update(rs, short)
    \/ \E r \in Objs : transfer(r)

SpecTransfer == InitReq /\ [][NextTransfer]_vars

\* ------------------------------------------------------ streaming delivery
\* The delivery layer runs one consumer per request that takes the items of
\* output_q one at a time (asyncio.Queue.get), independently of the
\* scheduler's update_output calls.
consume(r) ==
    /\ reqs[r].output_q # <<>>
    /\ reqs' = [reqs EXCEPT ![r].output_q = Tail(@)]
    /\ received' = [received EXCEPT ![r] = Append(@, Head(reqs[r].output_q)[1])]
    /\ UNCHANGED <<sb, last, prev, ulast, pd, stack>>

\* one update_output call of the scheduler with the sampled tokens of the
\* listed requests; the call and its outcome are remembered, the requests as
\* they were before it are not
stream_update(rs) ==
    /\ \A i \in 1..Len(rs) : reqs[rs[i]].output_len < MaxOutLen
    /\ LET toks == [i \in 1..Len(rs) |-> next_token(reqs[rs[i]])]
           res == update_output(reqs, rs, toks)
       IN  /\ reqs' = res.reqs
           /\ ulast' = [op |-> "update_output", rs |-> rs, toks |-> toks,
                        ok |-> res.ok, ret |-> res.ret, pre |-> <<>>]
    /\ UNCHANGED <<sb, last, prev, pd, stack, received>>

InitStream ==
    /\ reqs = [r \in Objs |-> tokenized(Request_init(MaxMaxOut), PromptOf(r))]
    /\ received = [r \in Objs |-> <<>>]
    /\ ulast = NoUpdate
    /\ sb = SubBatch_init("zero")
    /\ last = NoCall
    /\ prev = NoCall
    /\ pd = NoPerfData
    /\ stack = <<>>

NextStream ==
    \/ \E rs \in UpdateInputs : stream_update(rs)
    \/ \E r \in Objs : consume(r)

\* a consumer that can take an item eventually takes it
SpecStream ==
    /\ InitStream
    /\ [][NextStream]_vars
    /\ \A r \in Objs : WF_vars(consume(r))

\* ------------------------------------------------ one scheduling iteration
\* The batch is composed and finalized as in Spec; the forward pass follows
\* the finalization and its sampled tokens are handed to update_output with
\* the batch's requests, which ends the iteration.
update_batch(short) ==
    /\ last.op = "set_model_forward_args"
    /\ last.ok
    /\ ulast.op = "none"
    /\ update(sb.all_reqs, short)

NextIter ==
    \/ ulast.op = "none" /\ Next
    \/ \E short \in {-1, 0, 1} : update_batch(short)

SpecIter == Init /\ [][NextIter]_vars

\* ------------------------------------------- block sizing on long contexts
\* a request in its decode phase with a context of prompt_len tokens, as
\* __setstate__ leaves it: the prompt's token ids are not kept, the last
\* output token is
DecodingRequest(prompt_len, req_id) ==
    setstate(BlankRequest,
             [prompt_token_ids |-> <<>>, output_token_ids |-> <<0>>,
              prompt_len |-> prompt_len, output_len |-> 1,
              request_id |-> req_id])

InitBlock ==
    /\ \E prompt_len \in [1..NLong -> DecodeLens] :
          reqs = [r \in 1..NLong |-> DecodingRequest(prompt_len[r], r - 1)]
    /\ sb = SubBatch_init("zero")
    /\ last = NoCall
    /\ prev = NoCall
    /\ ulast = NoUpdate
    /\ pd = NoPerfData
    /\ stack = <<>>
    /\ received = <<>>

NextBlock ==
    \/ \E req \in 1..NLong : add_gdec(req)
    \/ \E req \in 1..NLong : add_cdec(req)
    \/ \E num_kv_heads \in BlockKvHeads : set_model_forward_args(num_kv_heads)

SpecBlock == InitBlock /\ [][NextBlock]_vars

\* ======================================================= SubBatch properties
Composing(self) == ListAttrs \cup {"perfdata"} \subseteq self.attrs
Finalized(self) == KernelAttrs \subseteq self.attrs

\* the call in `last` was a pop_pref on a composing SubBatch holding both
\* GPU- and CPU-prefill requests
PopWithBothPrefills ==
    /\ last.op = "pop_pref"
    /\ Composing(last.pre)
    /\ last.pre.gprf_reqs # <<>>
    /\ last.pre.cprf_reqs # <<>>

\* C1 as stated: with both prefill lists non-empty pop_pref returns the last
\* GPU-prefill request with is_gpu = TRUE, and it returns a CPU-prefill
\* request only when the GPU-prefill list is empty.
C1_PopPrefersGpu ==
    /\ PopWithBothPrefills =>
          /\ last.ok
          /\ last.ret.req = Last(last.pre.gprf_reqs)
          /\ last.ret.is_gpu
    /\ (last.op = "pop_pref" /\ Composing(last.pre) /\ last.ok
            /\ ~last.ret.is_gpu) => last.pre.gprf_reqs = <<>>

\* C1 amended: with both prefill lists non-empty pop_pref removes and returns
\* the last CPU-prefill request with is_gpu = FALSE and leaves the
\* GPU-prefill list alone; a GPU-prefill request is returned only when the
\* CPU-prefill list is empty.
C1_PopPrefersCpu ==
    /\ PopWithBothPrefills =>
          /\ last.ok
          /\ last.ret.req = Last(last.pre.cprf_reqs)
          /\ ~last.ret.is_gpu
          /\ sb.cprf_reqs = Front(last.pre.cprf_reqs)
          /\ sb.gprf_reqs = last.pre.gprf_reqs
    /\ (last.op = "pop_pref" /\ Composing(last.pre) /\ last.ok
            /\ last.ret.is_gpu) =>
          /\ last.pre.cprf_reqs = <<>>
          /\ last.ret.req = Last(last.pre.gprf_reqs)
          /\ sb.gprf_reqs = Front(last.pre.gprf_reqs)

C1_Witness == PopWithBothPrefills /\ last.ok

\* the call in `last` is a pop_pref that directly followed an add_pref on a
\* composing SubBatch
PopAfterAddPref ==
    /\ last.op = "pop_pref"
    /\ prev.op = "add_pref"
    /\ Composing(prev.pre)

FinalizedNow ==
    /\ last.op = "set_model_forward_args"
    /\ last.ok
    /\ Composing(last.pre)

\* C8: after a successful set_model_forward_args, len(all_reqs), num_prgds +
\* num_cdecs, batch_size and the x of just before the call are all equal.
C8_BatchSizeIsRequestCount ==
    FinalizedNow =>
        /\ Len(sb.all_reqs) = sb.num_prgds + sb.num_cdecs
        /\ sb.num_prgds + sb.num_cdecs = sb.batch_size
        /\ sb.batch_size = last.pre.perfdata.x

C8_Witness ==
    /\ FinalizedNow
    /\ last.pre.gdec_reqs # <<>>
    /\ Len(sb.all_reqs) >= 2

\* C9: all_reqs is the CPU-prefill, GPU-prefill, GPU-decode and CPU-decode
\* lists of just before the call, in that order and each in insertion order,
\* and seq_ids_list / seq_lens_list hold the request_id / seq_len of the
\* request at the same index.
C9_FlattenOrder ==
    FinalizedNow =>
        /\ SubSeq(sb.all_reqs, 1, sb.num_cprfs) = last.pre.cprf_reqs
        /\ SubSeq(sb.all_reqs, sb.num_cprfs + 1, sb.num_prefs)
              = last.pre.gprf_reqs
        /\ SubSeq(sb.all_reqs, sb.num_prefs + 1, sb.num_prgds)
              = last.pre.gdec_reqs
        /\ SubSeq(sb.all_reqs, sb.num_prgds + 1, Len(sb.all_reqs))
              = last.pre.cdec_reqs
        /\ Len(sb.seq_ids_list) = Len(sb.all_reqs)
        /\ Len(sb.seq_lens_list) = Len(sb.all_reqs)
        /\ \A i \in 1..Len(sb.all_reqs) :
              /\ sb.seq_ids_list[i] = reqs[sb.all_reqs[i]].request_id
              /\ sb.seq_lens_list[i] =
                    reqs[sb.all_reqs[i]].prompt_len
                        + reqs[sb.all_reqs[i]].output_len

C9_Witness ==
    /\ FinalizedNow
    /\ last.pre.cprf_reqs # <<>>
    /\ last.pre.gprf_reqs # <<>>
    /\ last.pre.gdec_reqs # <<>>

\* C10: once set_model_forward_args has completed, the category lists and
\* the BatchPerfData are gone, and every later call (add_pref, pop_pref,
\* add_gdec, add_cdec, pop_cdec, get_num_prefs, len, set_model_forward_args)
\* fails and changes nothing.
C10_FinalizationIsOneWay ==
    /\ Finalized(sb) => sb.attrs = FrozenAttrs
    /\ Finalized(last.pre) => (~last.ok /\ sb = last.pre)

C10_Witness ==
    /\ Finalized(last.pre)
    /\ last.op = "set_model_forward_args"
    /\ sb.all_reqs # <<>>

C13_ContractViolationsChangeNothing ==
    /\ ( /\ last.op = "pop_pref"
         /\ Composing(last.pre)
         /\ last.pre.gprf_reqs = <<>>
         /\ last.pre.cprf_reqs = <<>> )
        => (~last.ok /\ sb = last.pre)
    /\ ( /\ last.op = "pop_cdec"
         /\ Composing(last.pre)
         /\ last.pre.cdec_reqs = <<>> )
        => (~last.ok /\ sb = last.pre)
    /\ ( /\ ulast.op = "update_output"
         /\ Len(ulast.rs) # Len(ulast.toks) )
        => (~ulast.ok /\ reqs = ulast.pre)

\* pop_pref has just failed on a composing SubBatch that holds decode
\* requests and no prefill request
C13_Witness ==
    /\ last.op = "pop_pref"
    /\ ~last.ok
    /\ Composing(last.pre)
    /\ last.pre.gdec_reqs # <<>>
    /\ last.pre.cdec_reqs # <<>>
    /\ last.pre.perfdata.predictor = "calibrated"

\* C14: set_model_forward_args on a composing SubBatch fails when a request
\* of one of the four lists has request_id < 0, and then seq_ids_list,
\* seq_lens_list, seq_block_size and num_seq_blocks are not set; it returns
\* normally, with them set, when every member's request_id is >= 0.
C14_FinalizeNeedsIds ==
    ( /\ last.op = "set_model_forward_args"
      /\ Composing(last.pre) )
    => IF \E r \in ListMembers(last.pre) : reqs[r].request_id < 0
       THEN /\ ~last.ok
            /\ {"seq_ids_list", "seq_lens_list", "seq_block_size",
                "num_seq_blocks"} \cap sb.attrs = {}
       ELSE /\ last.ok
            /\ {"seq_ids_list", "seq_lens_list", "seq_block_size",
                "num_seq_blocks"} \subseteq sb.attrs

\* the finalization failed on a batch whose only request without an id is a
\* CPU-decode request
C14_Witness ==
    /\ last.op = "set_model_forward_args"
    /\ ~last.ok
    /\ Composing(last.pre)
    /\ last.pre.gprf_reqs # <<>>
    /\ \E r \in Range(last.pre.cdec_reqs) : reqs[r].request_id < 0

\* C15: in every composing state x is the number of requests in the four
\* lists and what len() returns, x_c is the length of the CPU-decode list,
\* and get_num_prefs() returns the length of the two prefill lists together.
C15_CountsMatchLists ==
    /\ Composing(sb) =>
          /\ sb.perfdata.x = Len(sb.gprf_reqs) + Len(sb.cprf_reqs)
                                + Len(sb.gdec_reqs) + Len(sb.cdec_reqs)
          /\ sb.perfdata.x_c = Len(sb.cdec_reqs)
          /\ SubBatch_len(sb).ok
          /\ SubBatch_len(sb).ret.n = sb.perfdata.x
          /\ SubBatch_get_num_prefs(sb).ok
          /\ SubBatch_get_num_prefs(sb).ret.n
                = Len(sb.gprf_reqs) + Len(sb.cprf_reqs)
    /\ (last.op = "len" /\ Composing(last.pre)) =>
          /\ last.ok
          /\ last.ret.n = Len(sb.gprf_reqs) + Len(sb.cprf_reqs)
                            + Len(sb.gdec_reqs) + Len(sb.cdec_reqs)
    /\ (last.op = "get_num_prefs" /\ Composing(last.pre)) =>
          /\ last.ok
          /\ last.ret.n = Len(sb.gprf_reqs) + Len(sb.cprf_reqs)

\* len() was called on a SubBatch holding prefill, GPU-decode and CPU-decode
\* requests
C15_Witness ==
    /\ last.op = "len"
    /\ Composing(last.pre)
    /\ last.ret.n >= 3
    /\ sb.gdec_reqs # <<>>
    /\ sb.cdec_reqs # <<>>
    /\ sb.cprf_reqs # <<>>

\* the prompt_len / seq_len of the requests of a list, in list order
PromptLens(q) == [i \in 1..Len(q) |-> reqs[q[i]].prompt_len]
SeqLens(q) == [i \in 1..Len(q) |-> reqs[q[i]].prompt_len + reqs[q[i]].output_len]

\* C16: in every composing state (requests do not change while they are
\* members) s is the sum of prompt_len over the GPU- and CPU-prefill lists
\* plus one per GPU-decode and CPU-decode request, n_g is the sum of seq_len
\* over the GPU-decode list and n_c the sum of seq_len over the CPU-decode
\* list.
C16_TotalsMatchMembers ==
    Composing(sb) =>
        /\ sb.perfdata.s = SumSeq(PromptLens(sb.gprf_reqs))
                             + SumSeq(PromptLens(sb.cprf_reqs))
                             + Len(sb.gdec_reqs) + Len(sb.cdec_reqs)
        /\ sb.perfdata.n_g = SumSeq(SeqLens(sb.gdec_reqs))
        /\ sb.perfdata.n_c = SumSeq(SeqLens(sb.cdec_reqs))

\* a pop has succeeded and the SubBatch still holds a GPU-decode request that
\* has produced output and a CPU-decode request
C16_Witness ==
    /\ last.op \in {"pop_pref", "pop_cdec"}
    /\ last.ok
    /\ Composing(sb)
    /\ \E i \in 1..Len(sb.gdec_reqs) : reqs[sb.gdec_reqs[i]].output_len > 0
    /\ sb.cdec_reqs # <<>>

\* C17: right after an add_gdec, n_g has grown by the request's seq_len and
\* gdec_T is the predictor's GPU-decode cost of the new n_g; add_pref,
\* pop_pref, add_cdec and pop_cdec leave n_g, gdec_T and lnch_T as they were;
\* and whenever the SubBatch holds a GPU-decode request, gdec_T is the
\* predictor's cost of n_g.
C17_GdecCostOfAggregate ==
    /\ (last.op = "add_gdec" /\ Composing(last.pre)) =>
          /\ last.ok
          /\ sb.perfdata.n_g = last.pre.perfdata.n_g
                                  + reqs[last.req].prompt_len
                                  + reqs[last.req].output_len
          /\ sb.perfdata.gdec_T =
                get_gdec_T(sb.perfdata.predictor, sb.perfdata.n_g)
    /\ ( /\ last.op \in {"add_pref", "pop_pref", "add_cdec", "pop_cdec"}
         /\ Composing(last.pre) ) =>
          /\ sb.perfdata.n_g = last.pre.perfdata.n_g
          /\ sb.perfdata.gdec_T = last.pre.perfdata.gdec_T
          /\ sb.perfdata.lnch_T = last.pre.perfdata.lnch_T
    /\ (Composing(sb) /\ sb.gdec_reqs # <<>>) =>
          sb.perfdata.gdec_T =
              get_gdec_T(sb.perfdata.predictor, sb.perfdata.n_g)

\* a CPU-decode request was popped from a SubBatch holding two GPU-decode
\* requests, under a predictor whose decode cost is not additive
C17_Witness ==
    /\ last.op = "pop_cdec"
    /\ last.ok
    /\ Composing(sb)
    /\ Len(sb.gdec_reqs) >= 2
    /\ sb.perfdata.predictor = "calibrated"

\* C18: pop_cdec on a composing SubBatch with a non-empty CPU-decode list
\* removes the last request of that list, subtracts 1 from x, s and x_c and
\* the request's seq_len from n_c, and leaves the other three lists, pref_T,
\* gdec_T and n_g as they were; a pop_cdec that directly follows an add_cdec
\* removes the request just added and leaves the SubBatch as it was before
\* the add.
C18_PopCdecIsLifo ==
    /\ ( /\ last.op = "pop_cdec"
         /\ Composing(last.pre)
         /\ last.pre.cdec_reqs # <<>> ) =>
          LET popped == Last(last.pre.cdec_reqs)
              before == last.pre.perfdata
          IN  /\ last.ok
              /\ sb.cdec_reqs = Front(last.pre.cdec_reqs)
              /\ sb.perfdata.x = before.x - 1
              /\ sb.perfdata.s = before.s - 1
              /\ sb.perfdata.x_c = before.x_c - 1
              /\ sb.perfdata.n_c = before.n_c - reqs[popped].prompt_len
                                              - reqs[popped].output_len
              /\ sb.gprf_reqs = last.pre.gprf_reqs
              /\ sb.cprf_reqs = last.pre.cprf_reqs
              /\ sb.gdec_reqs = last.pre.gdec_reqs
              /\ sb.perfdata.pref_T = before.pref_T
              /\ sb.perfdata.gdec_T = before.gdec_T
              /\ sb.perfdata.n_g = before.n_g
    /\ ( /\ last.op = "pop_cdec"
         /\ prev.op = "add_cdec"
         /\ Composing(prev.pre) ) =>
          /\ last.ok
          /\ Last(last.pre.cdec_reqs) = prev.req
          /\ sb = prev.pre

\* a pop_cdec directly followed an add_cdec made on a SubBatch that already
\* held another CPU-decode request and a GPU-decode request
C18_Witness ==
    /\ last.op = "pop_cdec"
    /\ prev.op = "add_cdec"
    /\ Composing(prev.pre)
    /\ prev.pre.cdec_reqs # <<>>
    /\ prev.pre.gdec_reqs # <<>>
    /\ prev.pre.perfdata.predictor = "calibrated"

\* C21: after a successful set_model_forward_args on a SubBatch whose
\* prefill requests all have output_len = 0 (no request was updated while a
\* member), iter_width = sum_pref_toks + num_gdecs + num_cdecs
\* = sum_prgd_toks + num_cdecs and max_pref_toks <= sum_pref_toks; without
\* prefill requests max_pref_toks is 0.
C21_WidthMatchesTokenSums ==
    ( /\ FinalizedNow
      /\ \A r \in Range(last.pre.gprf_reqs) \cup Range(last.pre.cprf_reqs) :
            reqs[r].output_len = 0 )
    => /\ sb.iter_width = sb.sum_pref_toks + sb.num_gdecs + sb.num_cdecs
       /\ sb.iter_width = sb.sum_prgd_toks + sb.num_cdecs
       /\ sb.iter_width = last.pre.perfdata.s
       /\ sb.max_pref_toks <= sb.sum_pref_toks
       /\ (last.pre.gprf_reqs = <<>> /\ last.pre.cprf_reqs = <<>>)
             => sb.max_pref_toks = 0

\* a batch with a CPU-prefill and a GPU-prefill request without output and
\* a GPU-decode request of several tokens was finalized
C21_Witness ==
    /\ FinalizedNow
    /\ last.pre.cprf_reqs # <<>>
    /\ last.pre.gprf_reqs # <<>>
    /\ \A r \in Range(last.pre.gprf_reqs) \cup Range(last.pre.cprf_reqs) :
          reqs[r].output_len = 0
    /\ \E r \in Range(last.pre.gdec_reqs) : reqs[r].prompt_len > 1
    /\ sb.max_pref_toks < sb.sum_pref_toks

MatchedUpdate ==
    /\ ulast.op = "update_output"
    /\ Len(ulast.rs) = Len(ulast.toks)

\* C4: update_output with N requests (each listed once) and N tokens returns
\* normally, adds 1 to the output_len of each listed request and appends its
\* paired token to output_token_ids, leaves the other requests alone, and
\* returns, in input order, the listed requests whose output_len equals
\* max_output_len after the call.
C4_UpdateOutput ==
    MatchedUpdate =>
        /\ ulast.ok
        /\ \A i \in 1..Len(ulast.rs) :
              /\ reqs[ulast.rs[i]].output_len
                    = ulast.pre[ulast.rs[i]].output_len + 1
              /\ reqs[ulast.rs[i]].output_token_ids
                    = Append(ulast.pre[ulast.rs[i]].output_token_ids,
                             ulast.toks[i])
        /\ \A r \in Objs \ Range(ulast.rs) : reqs[r] = ulast.pre[r]
        /\ ulast.ret = SelectSeq(ulast.rs,
                LAMBDA r : reqs[r].output_len = reqs[r].max_output_len)

C4_Witness ==
    /\ MatchedUpdate
    /\ Len(ulast.rs) = 2
    /\ ulast.toks[1] # ulast.toks[2]
    /\ ulast.ret = <<ulast.rs[2]>>
    /\ reqs[ulast.rs[1]].output_len > reqs[ulast.rs[1]].max_output_len

\* C5: output_len never exceeds max_output_len, and a request that is
\* finished stays finished under every further update_output.
C5_OutputLenBounded ==
    /\ [](\A r \in DOMAIN reqs : reqs[r].output_len <= reqs[r].max_output_len)
    /\ [][\A r \in DOMAIN reqs :
              is_finished(reqs[r]) => is_finished(reqs'[r])]_vars

\* C6: in every state the completion signal is set exactly when
\* is_finished() holds, and no update_output step raises a signal that is
\* already set.
C6_SignalIffFinished ==
    /\ [](\A r \in DOMAIN reqs :
              reqs[r].finished_event <=> is_finished(reqs[r]))
    /\ [][\A r \in DOMAIN reqs :
              (reqs[r].finished_event /\ ulast'.op = "update_output")
                  => r \notin Range(ulast'.ret)]_vars

\* C7: an update_output step on a request that was just rebuilt from its
\* serialization view returns normally, adds 1 to output_len, enqueues the
\* token on the output channel and reports the request finished exactly when
\* output_len reaches the max_output_len of the request it was rebuilt from.
C7_ReconstructedAcceptsUpdates ==
    [][(/\ ulast.op = "transfer"
        /\ Has(ulast.pre[ulast.rs[1]], "max_output_len")
        /\ ulast'.op = "update_output"
        /\ ulast'.rs = ulast.rs
        /\ Len(ulast'.toks) = 1)
       => LET r == ulast.rs[1]
          IN  /\ ulast'.ok
              /\ reqs'[r].output_len = reqs[r].output_len + 1
              /\ reqs'[r].output_q
                    = Append(ulast.pre[r].output_q, <<ulast'.toks[1], r>>)
              /\ (r \in Range(ulast'.ret)) <=>
                    (reqs'[r].output_len = ulast.pre[r].max_output_len)]_vars

\* =================================================== block sizing properties
\* C11: in every finalized SubBatch seq_block_size is a power of two that
\* divides 2048 and lies between 64 and 2048.
C11_BlockSizeRange ==
    Finalized(sb) =>
        /\ \E k \in 0..11 : sb.seq_block_size = 2 ^ k
        /\ 2048 % sb.seq_block_size = 0
        /\ 64 <= sb.seq_block_size
        /\ sb.seq_block_size <= 2048

C11_Witness ==
    /\ FinalizedNow
    /\ Len(last.pre.gdec_reqs) >= 2
    /\ sb.seq_block_size > 64
    /\ sb.seq_block_size < 2048

\* the values the descent from 2048 can visit
Descent == {2048, 1024, 512, 256, 128, 64}

\* C19: with sum and max the sum and the maximum of the GPU-decode requests'
\* seq_len (0 when there are none), seq_block_size is the first value b of
\* 2048, 1024, ..., 64 with b = 64, or num_kv_heads * sum >= 1024 * b, or
\* max > 128 * (b / 2), every larger value having passed all three tests;
\* num_seq_blocks is max / seq_block_size rounded up; without GPU-decode
\* requests seq_block_size is 64 and num_seq_blocks is 0.
C19_BlockSizeIsFirstStop ==
    FinalizedNow =>
        LET lens == SeqLens(last.pre.gdec_reqs)
            sum == SumSeq(lens)
            max == MaxSeq(lens)
            b == sb.seq_block_size
            n == sb.num_seq_blocks
        IN  /\ b \in Descent
            /\ \/ b = 64
               \/ last.kv * sum >= 1024 * b
               \/ max > 128 * (b \div 2)
            /\ \A c \in Descent :
                  c > b => /\ last.kv * sum < 1024 * c
                           /\ c \div 2 >= 64
                           /\ max <= 128 * (c \div 2)
            /\ n * b >= max
            /\ (n - 1) * b < max
            /\ last.pre.gdec_reqs = <<>> => (b = 64 /\ n = 0)

\* the descent stopped above 64 on the per-sequence cap alone, in a batch
\* that also holds CPU-decode requests
C19_Witness ==
    /\ FinalizedNow
    /\ sb.seq_block_size > 64
    /\ sb.seq_block_size < 2048
    /\ last.kv * SumSeq(SeqLens(last.pre.gdec_reqs))
          < 1024 * sb.seq_block_size
    /\ last.pre.cdec_reqs # <<>>
    /\ sb.num_seq_blocks > 1

\* C22: in a finalized SubBatch with seq_block_size < 2048 the longest
\* GPU-decode sequence has at most 128 * seq_block_size tokens and
\* num_seq_blocks <= 128; num_seq_blocks <= 128 also when the longest
\* sequence has at most 128 * 2048 tokens; num_seq_blocks exceeds 128 only
\* with seq_block_size = 2048.
C22_BlocksPerSequenceCapped ==
    FinalizedNow =>
        LET max == MaxSeq(SeqLens(last.pre.gdec_reqs))
        IN  /\ sb.seq_block_size < 2048 =>
                  /\ max <= 128 * sb.seq_block_size
                  /\ sb.num_seq_blocks <= 128
            /\ max <= 128 * 2048 => sb.num_seq_blocks <= 128
            /\ sb.num_seq_blocks > 128 => sb.seq_block_size = 2048

\* the block size was halved and the longest sequence fills exactly 128
\* blocks of it
C22_Witness ==
    /\ FinalizedNow
    /\ sb.seq_block_size < 2048
    /\ sb.num_seq_blocks = 128
    /\ Len(last.pre.gdec_reqs) >= 2

\* ======================================================= delivery properties
\* the token ids of the items queued on a channel, oldest first
QueuedTokens(q) == [i \in 1..Len(q) |-> q[i][1]]

\* C20: whatever the interleaving of update_output calls and consumers,
\* every update_output call returns normally; for each request, the tokens
\* its consumer has received followed by the tokens still queued are exactly
\* output_token_ids, in order, and their number is the number of update
\* steps applied to the request; and every token appended is eventually
\* received.
C20_StreamIsOrderedAndComplete ==
    /\ [](MatchedUpdate => ulast.ok)
    /\ [](\A r \in Objs :
            /\ received[r] \o QueuedTokens(reqs[r].output_q)
                  = reqs[r].output_token_ids
            /\ Len(received[r]) + Len(reqs[r].output_q) = reqs[r].output_len
            /\ \A i \in 1..Len(reqs[r].output_q) :
                  reqs[r].output_q[i][2] = r)
    /\ \A r \in Objs : \A k \in 1..MaxOutLen :
          (Len(reqs[r].output_token_ids) >= k)
              ~> (/\ Len(received[r]) >= k
                  /\ received[r][k] = reqs[r].output_token_ids[k])

\* a consumer has received a token while a later one is still queued, and
\* another request's consumer has received nothing of what is queued for it
C20_Witness ==
    \E r, o \in Objs :
        /\ r # o
        /\ received[r] # <<>>
        /\ reqs[r].output_q # <<>>
        /\ received[o] = <<>>
        /\ reqs[o].output_q # <<>>

====
